---- MODULE Spec2Model ----
(***************************************************************************)
(* Model of src/main.py: the telemetry normaliser.                         *)
(*                                                                         *)
(* Strings that the program inspects character by character (timestamps)   *)
(* are sequences of one-character strings.  Python integers wider than 31  *)
(* bits (millisecond counts) are kept as records [neg, hi, lo] standing    *)
(* for (-1)^neg * (hi * 1000 + lo), 0 <= lo < 1000, zero having neg FALSE. *)
(* Python floats are IEEE-754 binary64 values kept as [m, e]: m the 53     *)
(* mantissa bits, most significant first, e the binary exponent of m[1].   *)
(***************************************************************************)
EXTENDS Integers, Sequences, FiniteSets, TLC

VARIABLES pc, tz, arg, ret, file1, file2, fixture, data1, data2,
          unified1, unified2, raised, output, test_passed

vars == <<pc, tz, arg, ret, file1, file2, fixture, data1, data2,
          unified1, unified2, raised, output, test_passed>>

(***************************************************************************)
(* Integers and bit strings                                                *)
(***************************************************************************)

\* A Python int of up to 41 bits: (-1)^neg * (hi * 1000 + lo).
PyInt(neg, hi, lo) == [neg |-> neg /\ (hi # 0 \/ lo # 0), hi |-> hi, lo |-> lo]

PyZero == PyInt(FALSE, 0, 0)

\* The binary digits of n >= 0, most significant first; <<>> for 0.
NatBits(n) ==
    LET len == Cardinality({i \in 0..30 : 2^i <= n})
    IN  [i \in 1..len |-> (n \div 2^(len - i)) % 2]

Zeros(n) == [i \in 1..n |-> 0]

AnyOne(b) == \E i \in 1..Len(b) : b[i] = 1

\* b without the zeros that open it.
StripZeros(b) ==
    IF ~AnyOne(b) THEN <<>>
    ELSE LET first == CHOOSE i \in 1..Len(b) :
                          b[i] = 1 /\ \A j \in 1..(i - 1) : b[j] = 0
         IN  SubSeq(b, first, Len(b))

\* b + 1 on a bit string of fixed length; the carry out of the top is dropped
\* (the all-ones string becomes all zeros).
Increment(b) ==
    LET zeros == {i \in 1..Len(b) : b[i] = 0}
        last  == IF zeros = {} THEN 0
                 ELSE CHOOSE i \in zeros : \A j \in zeros : j <= i
    IN  [i \in 1..Len(b) |-> IF i < last THEN b[i] ELSE IF i = last THEN 1 ELSE 0]

Invert(b) == [i \in 1..Len(b) |-> 1 - b[i]]

\* Bit strings are worked on ten digits at a time, as limbs in 0..1023.
LimbsToBits(l) ==
    [i \in 1..(10 * Len(l)) |-> (l[(i - 1) \div 10 + 1] \div 2^(9 - ((i - 1) % 10))) % 2]

RECURSIVE BitsValue(_)
\* The number a bit string of at most 30 digits writes.
BitsValue(b) ==
    IF Len(b) = 0 THEN 0 ELSE 2 * BitsValue(SubSeq(b, 1, Len(b) - 1)) + b[Len(b)]

BitsToLimbs(b) ==
    LET k == (Len(b) + 9) \div 10
        p == Zeros(10 * k - Len(b)) \o b
    IN  [j \in 1..k |-> BitsValue(SubSeq(p, 10 * (j - 1) + 1, 10 * j))]

RECURSIVE FracLimbs(_, _, _)
\* The first k limbs of the binary expansion of r / d (0 <= r < d < 2^21),
\* with the remainder left after them, as <<limbs, remainder>>.
FracLimbs(r, d, k) ==
    IF k = 0 THEN <<<<>>, r>>
    ELSE LET t    == 1024 * r
             rest == FracLimbs(t % d, d, k - 1)
         IN  <<<<t \div d>> \o rest[1], rest[2]>>

RECURSIVE MulLimbs(_, _, _)
\* l * k + carry for a limb string l and 0 <= carry < k <= 1024.
MulLimbs(l, k, carry) ==
    IF Len(l) = 0 THEN <<carry>>
    ELSE LET t == l[Len(l)] * k + carry
         IN  MulLimbs(SubSeq(l, 1, Len(l) - 1), k, t \div 1024) \o <<t % 1024>>

\* b * k for a bit string b and 1 <= k <= 1024, without opening zeros.
MulBits(b, k) == StripZeros(LimbsToBits(MulLimbs(BitsToLimbs(b), k, 0)))

RECURSIVE LimbsToPyInt(_, _, _, _)
\* The Python int (-1)^neg * n, n the number the limbs l write on top of
\* hi * 1000 + lo.
LimbsToPyInt(l, hi, lo, neg) ==
    IF Len(l) = 0 THEN PyInt(neg, hi, lo)
    ELSE LET t == 1024 * lo + l[1]
         IN  LimbsToPyInt(SubSeq(l, 2, Len(l)), 1024 * hi + t \div 1000, t % 1000, neg)

(***************************************************************************)
(* IEEE-754 binary64, round to nearest, ties to even                       *)
(***************************************************************************)

FloatZero == [m |-> <<>>, e |-> 0]

\* The double nearest to the number whose binary digits are b, b[1] = 1 of
\* weight 2^e, with sticky telling whether non-zero digits follow b.
RoundBits(b, e, sticky) ==
    IF Len(b) <= 53 THEN [m |-> b \o Zeros(53 - Len(b)), e |-> e]
    ELSE LET m    == SubSeq(b, 1, 53)
             half == b[54] = 1
             more == sticky \/ AnyOne(SubSeq(b, 55, Len(b)))
             up   == half /\ (more \/ m[53] = 1)
         IN  IF ~up THEN [m |-> m, e |-> e]
             ELSE IF AnyOne(Invert(m)) THEN [m |-> Increment(m), e |-> e]
             ELSE [m |-> <<1>> \o Zeros(52), e |-> e + 1]

\* The double nearest to the number with integer digits ib and fraction
\* digits fb (sticky as above); zero when it has no digit 1.
FloatOfBits(ib, fb, sticky) ==
    LET all == ib \o fb
        b   == StripZeros(all)
    IN  IF Len(b) = 0 THEN FloatZero
        ELSE RoundBits(b, Len(ib) - 1 - (Len(all) - Len(b)), sticky)

\* int / int true division: the double nearest to s + r / d, for integers
\* s >= 0 and 0 <= r < d.
FloatOfRatio(s, r, d) ==
    LET fl == FracLimbs(r, d, 8)
    IN  FloatOfBits(NatBits(s), LimbsToBits(fl[1]), fl[2] # 0)

\* The binary digits of the fraction part of a double 0 <= f < 1, as many as
\* it has.
FloatFracBits(f) == IF Len(f.m) = 0 THEN <<>> ELSE Zeros(-(f.e) - 1) \o f.m

\* float(s) + f for an integer s >= 0 and a double 0 <= f < 1.
FloatAddInt(s, f) == FloatOfBits(NatBits(s), FloatFracBits(f), FALSE)

\* float(s) - f, the magnitude, for an integer s >= 1 and a double 0 < f < 1:
\* (s - 1) + (1 - f), where 1 - f is the two's complement of f's digits.
FloatSubFromInt(s, f) ==
    FloatOfBits(NatBits(s - 1), Increment(Invert(FloatFracBits(f))), FALSE)

\* x * float(k) for a double x >= 0 and an integer 1 <= k <= 1024.
FloatMul(x, k) ==
    IF Len(x.m) = 0 THEN FloatZero
    ELSE LET p == MulBits(x.m, k)
         IN  RoundBits(p, x.e + (Len(p) - 53), FALSE)

\* int(x) of the double (-1)^neg * x, x < 2^53: truncation toward zero.
FloatToInt(x, neg) ==
    IF Len(x.m) = 0 \/ x.e < 0 THEN PyZero
    ELSE LimbsToPyInt(BitsToLimbs(SubSeq(x.m, 1, x.e + 1)), 0, 0, neg)

(***************************************************************************)
(* datetime.datetime.fromisoformat, as documented for the extended         *)
(* calendar format: YYYY-MM-DD[<sep>HH[:MM[:SS[(.|,)f+]]][(+|-)HH:MM]]     *)
(***************************************************************************)

DigitVal ==
    "0" :> 0 @@ "1" :> 1 @@ "2" :> 2 @@ "3" :> 3 @@ "4" :> 4 @@
    "5" :> 5 @@ "6" :> 6 @@ "7" :> 7 @@ "8" :> 8 @@ "9" :> 9

IsDigits(s) == \A i \in 1..Len(s) : s[i] \in DOMAIN DigitVal

RECURSIVE Num(_)
\* The number a string of decimal digits writes.
Num(s) ==
    IF s = <<>> THEN 0
    ELSE 10 * Num(SubSeq(s, 1, Len(s) - 1)) + DigitVal[s[Len(s)]]

RECURSIVE ReplaceZ(_)
\* str.replace('Z', '+00:00'): every 'Z' of the string, wherever it stands.
ReplaceZ(s) ==
    IF Len(s) = 0 THEN <<>>
    ELSE IF Len(s) = 1
    THEN (IF s[1] = "Z" THEN <<"+", "0", "0", ":", "0", "0">> ELSE s)
    ELSE LET half == Len(s) \div 2
         IN  ReplaceZ(SubSeq(s, 1, half)) \o ReplaceZ(SubSeq(s, half + 1, Len(s)))

IsLeap(y) == y % 4 = 0 /\ (y % 100 # 0 \/ y % 400 = 0)

DaysInMonth(y, m) ==
    IF m = 2 THEN (IF IsLeap(y) THEN 29 ELSE 28)
    ELSE IF m \in {4, 6, 9, 11} THEN 30 ELSE 31

RECURSIVE DaysBeforeMonth(_, _)
DaysBeforeMonth(y, m) ==
    IF m = 1 THEN 0 ELSE DaysBeforeMonth(y, m - 1) + DaysInMonth(y, m - 1)

\* date.toordinal(): 1 for 0001-01-01.
Ordinal(y, m, d) ==
    (y - 1) * 365 + (y - 1) \div 4 - (y - 1) \div 100 + (y - 1) \div 400
    + DaysBeforeMonth(y, m) + d

ParseError == [ok |-> FALSE]

\* "YYYY-MM-DD" to the day's ordinal.
ParseDate(s) ==
    IF ~(Len(s) = 10 /\ s[5] = "-" /\ s[8] = "-"
         /\ IsDigits(SubSeq(s, 1, 4)) /\ IsDigits(SubSeq(s, 6, 7))
         /\ IsDigits(SubSeq(s, 9, 10)))
    THEN ParseError
    ELSE LET y == Num(SubSeq(s, 1, 4))
             m == Num(SubSeq(s, 6, 7))
             d == Num(SubSeq(s, 9, 10))
         IN  IF y >= 1 /\ m \in 1..12 /\ d >= 1 /\ d <= DaysInMonth(y, m)
             THEN [ok |-> TRUE, ordinal |-> Ordinal(y, m, d)]
             ELSE ParseError

\* Digits after the decimal mark to microseconds: cut after six, padded to six.
ParseFraction(s) ==
    LET n == IF Len(s) < 6 THEN Len(s) ELSE 6
    IN  Num(SubSeq(s, 1, n) \o [i \in 1..(6 - n) |-> "0"])

\* "HH[:MM[:SS[.f+]]]" to seconds of the day and microseconds.
ParseClock(s) ==
    LET n     == Len(s)
        shape == /\ n \in {2, 5, 8} \/ n >= 10
                 /\ IsDigits(SubSeq(s, 1, 2))
                 /\ n >= 5 => (s[3] = ":" /\ IsDigits(SubSeq(s, 4, 5)))
                 /\ n >= 8 => (s[6] = ":" /\ IsDigits(SubSeq(s, 7, 8)))
                 /\ n >= 10 => (s[9] \in {".", ","} /\ IsDigits(SubSeq(s, 10, n)))
    IN  IF ~shape THEN ParseError
        ELSE LET hh == Num(SubSeq(s, 1, 2))
                 mm == IF n >= 5 THEN Num(SubSeq(s, 4, 5)) ELSE 0
                 ss == IF n >= 8 THEN Num(SubSeq(s, 7, 8)) ELSE 0
                 us == IF n >= 10 THEN ParseFraction(SubSeq(s, 10, n)) ELSE 0
             IN  IF hh <= 23 /\ mm <= 59 /\ ss <= 59
                 THEN [ok |-> TRUE, seconds |-> hh * 3600 + mm * 60 + ss, us |-> us]
                 ELSE ParseError

\* "(+|-)HH:MM" to the offset in seconds east of UTC.
ParseOffset(s) ==
    IF ~(Len(s) = 6 /\ s[1] \in {"+", "-"} /\ s[4] = ":"
         /\ IsDigits(SubSeq(s, 2, 3)) /\ IsDigits(SubSeq(s, 5, 6)))
    THEN ParseError
    ELSE LET hh == Num(SubSeq(s, 2, 3))
             mm == Num(SubSeq(s, 5, 6))
         IN  IF hh <= 23 /\ mm <= 59
             THEN [ok |-> TRUE,
                   offset |-> (IF s[1] = "-" THEN -1 ELSE 1) * (hh * 3600 + mm * 60)]
             ELSE ParseError

\* The first position of a sign in s, or Len(s) + 1.
SignAt(s) ==
    LET at == {i \in 1..Len(s) : s[i] \in {"+", "-"}}
    IN  IF at = {} THEN Len(s) + 1 ELSE CHOOSE i \in at : \A j \in at : i <= j

\* fromisoformat: a datetime as [ok, aware, seconds, us, offset], seconds being
\* the wall-clock seconds since 1970-01-01T00:00:00 on the datetime's own clock;
\* [ok |-> FALSE] is ValueError.
fromisoformat(s) ==
    IF Len(s) < 10 THEN ParseError
    ELSE LET date == ParseDate(SubSeq(s, 1, 10))
             rest == SubSeq(s, 12, Len(s))
             cut  == SignAt(rest)
             time == IF Len(s) = 10 THEN [ok |-> TRUE, seconds |-> 0, us |-> 0]
                     ELSE ParseClock(SubSeq(rest, 1, cut - 1))
             zone == IF cut > Len(rest) THEN [ok |-> TRUE, offset |-> 0]
                     ELSE ParseOffset(SubSeq(rest, cut, Len(rest)))
         IN  IF date.ok /\ time.ok /\ zone.ok
             THEN [ok |-> TRUE, aware |-> cut <= Len(rest),
                   seconds |-> (date.ordinal - 719163) * 86400 + time.seconds,
                   us |-> time.us, offset |-> zone.offset]
             ELSE ParseError

\* datetime.timestamp() * 1000 truncated by int(): an aware datetime is
\* (self - EPOCH).total_seconds(), the integer microseconds divided by 10^6 in
\* one correctly rounded step; a naive one is float(seconds) + microsecond / 1e6
\* on the host's clock, local |-> the host's offset east of UTC.
TimestampMillis(dt, local) ==
    LET s   == dt.seconds - (IF dt.aware THEN dt.offset ELSE local)
        neg == s < 0
    IN  IF dt.aware
        THEN LET ms == IF neg /\ dt.us > 0 THEN -s - 1 ELSE (IF neg THEN -s ELSE s)
                 mu == IF neg /\ dt.us > 0 THEN 1000000 - dt.us ELSE dt.us
             IN  FloatToInt(FloatMul(FloatOfRatio(ms, mu, 1000000), 1000), neg)
        ELSE LET f == FloatOfRatio(0, dt.us, 1000000)
                 x == IF ~neg THEN FloatAddInt(s, f)
                      ELSE IF dt.us = 0 THEN FloatAddInt(-s, f)
                      ELSE FloatSubFromInt(-s, f)
             IN  FloatToInt(FloatMul(x, 1000), neg)

\* A normalizer whose except branch returns -1.
iso_to_milliseconds_minus_one(iso_timestamp, local) ==
    LET dt == fromisoformat(ReplaceZ(iso_timestamp))
    IN  IF dt.ok THEN TimestampMillis(dt, local) ELSE PyInt(TRUE, 0, 1)

\* iso_to_milliseconds: the except ValueError branch returns 0.
iso_to_milliseconds(iso_timestamp, local) ==
    LET dt == fromisoformat(ReplaceZ(iso_timestamp))
    IN  IF dt.ok THEN TimestampMillis(dt, local) ELSE PyZero

(***************************************************************************)
(* JSON documents and files                                                *)
(***************************************************************************)

\* Longest 'telemetry' / 'sensors' list of an input document.
MaxLen == 2

\* A JSON mapping is a function from its keys; {} has no key.
EmptyDict == [k \in {} |-> 0]

\* Python truth of a mapping: "not data" is true of {} alone.
Truthy(data) == DOMAIN data # {}

Without(entry, key) == [k \in DOMAIN entry \ {key} |-> entry[k]]

Seqs(S, n) == UNION {[1..k -> S] : k \in 0..n}

\* What open() and json.load() find for a file name.
Missing == [kind |-> "missing", value |-> EmptyDict]
Invalid == [kind |-> "invalid", value |-> EmptyDict]
JsonFile(value) == [kind |-> "json", value |-> value]

\* load_json_file: the parsed document, or {} after FileNotFoundError or
\* json.JSONDecodeError.
load_json_file(file) == IF file.kind = "json" THEN file.value ELSE EmptyDict

(***************************************************************************)
(* The two mappers                                                         *)
(***************************************************************************)

Returned(value) == [raised |-> FALSE, key |-> "", value |-> value]

\* An exception leaving a function: entry[key] of an absent key.
KeyError(key) == [raised |-> TRUE, key |-> key, value |-> <<>>]

\* The first of keys, in the order the code reads them, that entry lacks.
FirstMissing(entry, keys) ==
    LET at == {i \in 1..Len(keys) : keys[i] \notin DOMAIN entry}
    IN  IF at = {} THEN "" ELSE keys[CHOOSE i \in at : \A j \in at : i <= j]

Format1Keys == <<"timestamp", "device_id", "temperature", "humidity", "pressure">>

Format2Keys == <<"id", "ts", "temp", "hum", "press">>

\* Lines 66-75: one Format-A entry to its unified entry.
UnifiedEntry1(entry, local) ==
    [device_id   |-> entry.device_id,
     timestamp   |-> iso_to_milliseconds(entry.timestamp, local),
     temperature |-> entry.temperature,
     humidity    |-> entry.humidity,
     pressure    |-> entry.pressure]

\* A renaming with hum and press the wrong way round.
UnifiedEntry2Swapped(entry) ==
    [device_id   |-> entry.id,
     timestamp   |-> entry.ts,
     temperature |-> entry.temp,
     humidity    |-> entry.press,
     pressure    |-> entry.hum]

\* Lines 116-122: one Format-B entry to its unified entry.
UnifiedEntry2(entry) ==
    [device_id   |-> entry.id,
     timestamp   |-> entry.ts,
     temperature |-> entry.temp,
     humidity    |-> entry.hum,
     pressure    |-> entry.press]

RECURSIVE Format1LoopSkipping(_, _, _)
\* A loop that leaves out the entries whose timestamp does not parse.
Format1LoopSkipping(entries, unified_data, local) ==
    IF Len(entries) = 0 THEN Returned(unified_data)
    ELSE IF FirstMissing(entries[1], Format1Keys) # ""
    THEN KeyError(FirstMissing(entries[1], Format1Keys))
    ELSE IF ~fromisoformat(ReplaceZ(entries[1].timestamp)).ok
    THEN Format1LoopSkipping(Tail(entries), unified_data, local)
    ELSE Format1LoopSkipping(Tail(entries),
                             Append(unified_data, UnifiedEntry1(entries[1], local)),
                             local)

RECURSIVE Format1Loop(_, _, _)
\* The for loop of lines 64-77 over the entries left, unified_data so far.
Format1Loop(entries, unified_data, local) ==
    IF Len(entries) = 0 THEN Returned(unified_data)
    ELSE IF FirstMissing(entries[1], Format1Keys) # ""
    THEN KeyError(FirstMissing(entries[1], Format1Keys))
    ELSE Format1Loop(Tail(entries),
                     Append(unified_data, UnifiedEntry1(entries[1], local)), local)

RECURSIVE Format2LoopSkipping(_, _)
\* A loop that skips an entry lacking a field instead of raising.
Format2LoopSkipping(entries, unified_data) ==
    IF Len(entries) = 0 THEN Returned(unified_data)
    ELSE IF FirstMissing(entries[1], Format2Keys) # ""
    THEN Format2LoopSkipping(Tail(entries), unified_data)
    ELSE Format2LoopSkipping(Tail(entries),
                             Append(unified_data, UnifiedEntry2(entries[1])))

RECURSIVE Format2Loop(_, _)
\* The for loop of lines 114-124.
Format2Loop(entries, unified_data) ==
    IF Len(entries) = 0 THEN Returned(unified_data)
    ELSE IF FirstMissing(entries[1], Format2Keys) # ""
    THEN KeyError(FirstMissing(entries[1], Format2Keys))
    ELSE Format2Loop(Tail(entries), Append(unified_data, UnifiedEntry2(entries[1])))

\* A mapper that reads data['telemetry'] without asking whether it is there.
transform_format1_unguarded(data, local) ==
    IF "telemetry" \notin DOMAIN data THEN KeyError("telemetry")
    ELSE Format1Loop(data.telemetry, <<>>, local)

transform_format1_to_unified(data, local) ==
    IF "telemetry" \notin DOMAIN data THEN Returned(<<>>)
    ELSE Format1Loop(data.telemetry, <<>>, local)

transform_format2_to_unified(data) ==
    IF "sensors" \notin DOMAIN data THEN Returned(<<>>)
    ELSE Format2Loop(data.sensors, <<>>)

\* unified2 + unified1.
ConcatenateReversed(u1, u2) == u2 \o u1

\* Lines 170 and 212: unified1 + unified2.
Concatenate(u1, u2) == u1 \o u2

\* save_unified_data: the document written to output-unified.json.
save_unified_data(unified_data) ==
    [written |-> TRUE, unified_telemetry |-> unified_data]

NotWritten == [written |-> FALSE, unified_telemetry |-> <<>>]

\* A check that gives up only when both documents are falsy.
LoadFailedBoth(d1, d2) == ~Truthy(d1) /\ ~Truthy(d2)

\* Line 200: main gives up when either document is falsy.
LoadFailed(d1, d2) == ~Truthy(d1) \/ ~Truthy(d2)

\* Lines 170-188: the comparison of the merged list with the fixture.
CompareWithExpected(all_unified, expected_data) ==
    LET expected_records ==
            IF "unified_telemetry" \in DOMAIN expected_data
            THEN expected_data.unified_telemetry ELSE <<>>
    IN  /\ Len(all_unified) = Len(expected_records)
        /\ \A i \in 1..Len(all_unified) : all_unified[i] = expected_records[i]

\* run_tests on the three files as they are on disk: what it returns, or the
\* exception that leaves it.
run_tests(expected_file, f1, f2, local) ==
    LET expected_data == load_json_file(expected_file)
        d1 == load_json_file(f1)
        d2 == load_json_file(f2)
        u1 == transform_format1_to_unified(d1, local)
        u2 == transform_format2_to_unified(d2)
    IN  IF ~Truthy(expected_data) THEN Returned(FALSE)
        ELSE IF ~Truthy(d1) THEN Returned(FALSE)
        ELSE IF u1.raised THEN u1
        ELSE IF ~Truthy(d2) THEN Returned(FALSE)
        ELSE IF u2.raised THEN u2
        ELSE Returned(CompareWithExpected(Concatenate(u1.value, u2.value), expected_data))

(***************************************************************************)
(* Inputs                                                                  *)
(***************************************************************************)

\* The host's offset east of UTC, in seconds: UTC, Asia/Kolkata, Etc/GMT+8.
LocalOffsets == {0, 19800, -28800}

\* The same for the hosts main is run on.
MainOffsets == {0, 19800}

Dates ==
    {<<"1", "9", "7", "0", "-", "0", "1", "-", "0", "1">>,
     <<"1", "9", "6", "9", "-", "1", "2", "-", "3", "1">>,
     <<"2", "0", "2", "3", "-", "1", "0", "-", "1", "5">>}

NoSuchDates ==
    {<<"2", "0", "2", "3", "-", "0", "2", "-", "3", "0">>,
     <<"2", "0", "2", "3", "-", "1", "3", "-", "1", "5">>}

Clocks ==
    {<<"0", "0", ":", "0", "0", ":", "0", "1">>,
     <<"1", "4", ":", "3", "0", ":", "2", "5">>,
     <<"2", "3", ":", "5", "9", ":", "5", "8">>}

NoSuchClocks ==
    {<<"2", "4", ":", "0", "0", ":", "0", "0">>,
     <<"1", "2", ":", "6", "0", ":", "0", "0">>}

Fractions ==
    {<<>>,
     <<".", "0", "0", "1">>,
     <<".", "1", "2", "3">>,
     <<".", "0", "0", "1", "9", "9", "9">>,
     <<".", "9", "9", "9">>}

Offsets ==
    {<<"Z">>,
     <<"+", "0", "0", ":", "0", "0">>,
     <<"+", "0", "5", ":", "3", "0">>,
     <<"-", "0", "8", ":", "0", "0">>}

NoSuchOffsets ==
    {<<"z">>,
     <<"Z", "Z">>,
     <<"+", "5", ":", "3", "0">>}

\* Date, 'T', clock, fraction and zone, each taken from a set.
Stamps(dates, clocks, fractions, zones) ==
    {d \o <<"T">> \o c \o f \o z :
        d \in dates, c \in clocks, f \in fractions, z \in zones}

\* Well-formed extended ISO-8601 with a 'Z' or a numeric offset.
AwareStamps == Stamps(Dates, Clocks, Fractions, Offsets)

\* Well-formed, without a zone: read on the host's clock.
NaiveStamps == Stamps(Dates, Clocks, Fractions, {<<>>})

\* Not a date-time: no such day or month, no such hour or minute, a lower-case
\* zone letter, a doubled 'Z', an offset a digit short, a 'Z' for the 'T', no
\* date-time at all.
MalformedStamps ==
    Stamps(NoSuchDates, Clocks, {<<>>}, Offsets)
    \cup Stamps(Dates, NoSuchClocks, {<<>>}, Offsets)
    \cup Stamps(Dates, Clocks, Fractions, NoSuchOffsets)
    \cup {<<>>,
        <<"g", "a", "r", "b", "a", "g", "e">>,
        <<"2", "0", "2", "3", "-", "1", "0", "-", "1", "5", "Z", "1", "4", ":", "3", "0", ":", "2", "5">>,
        <<"2", "0", "2", "3", "-", "1", "0", "-", "1">>}

TsExample == <<"2", "0", "2", "3", "-", "1", "0", "-", "1", "5", "T", "1", "4", ":", "3", "0", ":", "2", "5", ".", "1", "2", "3", "Z">>

TsAfterEpoch == <<"1", "9", "7", "0", "-", "0", "1", "-", "0", "1", "T", "0", "0", ":", "0", "0", ":", "0", "1", ".", "0", "0", "1", "Z">>

TsGarbage == <<"g", "a", "r", "b", "a", "g", "e">>

Entry1(ts) ==
    [device_id |-> "sensor_001", timestamp |-> ts, temperature |-> "23.5",
     humidity |-> "65.2", pressure |-> "1013.25"]

Entry2(id) ==
    [id |-> id, ts |-> PyInt(FALSE, 1697372225, 123), temp |-> "20.0",
     hum |-> "50.0", press |-> "1000.0"]

\* The entry with one of its fields taken out, for each field.
Defective(entry, keys) == {Without(entry, keys[i]) : i \in 1..Len(keys)}

\* Format-A and Format-B entries of the documents main is run on.
Entries1 ==
    {Entry1(TsExample), Entry1(TsGarbage)} \cup Defective(Entry1(TsExample), Format1Keys)

Entries2 ==
    {Entry2("sensor_002"), Entry2("sensor_003")}
    \cup Defective(Entry2("sensor_002"), Format2Keys)

\* data-1.json and data-2.json: absent, not JSON, {}, a mapping without the
\* list, a mapping with a list of at most MaxLen entries.
Files1 ==
    {Missing, Invalid, JsonFile(EmptyDict), JsonFile([comment |-> "none"])}
    \cup {JsonFile([telemetry |-> l]) : l \in Seqs(Entries1, MaxLen)}

Files2 ==
    {Missing, Invalid, JsonFile(EmptyDict), JsonFile([comment |-> "none"])}
    \cup {JsonFile([sensors |-> l]) : l \in Seqs(Entries2, MaxLen)}

Unread == [kind |-> "unread", value |-> EmptyDict]

\* The merged output of the scenario the specification gives for TsExample.
ScenarioExpected ==
    <<[device_id |-> "sensor_001", timestamp |-> PyInt(FALSE, 1697372225, 123),
       temperature |-> "23.5", humidity |-> "65.2", pressure |-> "1013.25"],
      [device_id |-> "sensor_002", timestamp |-> PyInt(FALSE, 1697372225, 123),
       temperature |-> "20.0", humidity |-> "50.0", pressure |-> "1000.0"]>>

\* data-result.json as run_tests may find it: absent, not JSON, {}, without
\* the list, or with a list: the merged output of this run, the same with
\* Format-B first, the same less its last record, the scenario's.
FixtureFiles(u1, u2) ==
    {Missing, Invalid, JsonFile(EmptyDict), JsonFile([comment |-> "none"])}
    \cup {JsonFile([unified_telemetry |-> l]) :
             l \in {u1 \o u2, u2 \o u1,
                    SubSeq(u1 \o u2, 1, Len(u1 \o u2) - 1), ScenarioExpected}}

\* The arguments of a direct call of one of the three functions.
IsoArgs == AwareStamps \cup NaiveStamps \cup MalformedStamps

Format1Args ==
    {EmptyDict, [comment |-> "none"], [sensors |-> <<Entry2("sensor_002")>>]}
    \cup {[telemetry |-> l] :
             l \in Seqs(Entries1 \cup {Entry1(TsAfterEpoch)}, MaxLen)}

\* The three files of a direct call of run_tests: the documents hold complete
\* entries, or one defective entry.
TestFiles1 ==
    {Missing, Invalid, JsonFile(EmptyDict), JsonFile([comment |-> "none"]),
     JsonFile([telemetry |-> <<Without(Entry1(TsExample), "humidity")>>])}
    \cup {JsonFile([telemetry |-> l]) :
             l \in Seqs({Entry1(TsExample), Entry1(TsGarbage)}, MaxLen)}

TestFiles2 ==
    {Missing, Invalid, JsonFile(EmptyDict), JsonFile([comment |-> "none"]),
     JsonFile([sensors |-> <<Without(Entry2("sensor_002"), "hum")>>])}
    \cup {JsonFile([sensors |-> l]) :
             l \in Seqs({Entry2("sensor_002"), Entry2("sensor_003")}, MaxLen)}

TestFixtures(f1, f2, local) ==
    FixtureFiles(transform_format1_to_unified(load_json_file(f1), local).value,
                 transform_format2_to_unified(load_json_file(f2)).value)

Format2Args ==
    {EmptyDict, [comment |-> "none"], [telemetry |-> <<Entry1(TsExample)>>]}
    \cup {[sensors |-> l] : l \in Seqs(Entries2, MaxLen)}

\* A call: the function, and its argument in the field of its type.
Call(fn, iso_timestamp, data) == [fn |-> fn, iso_timestamp |-> iso_timestamp, data |-> data]

NoCall == Call("none", <<>>, EmptyDict)

(***************************************************************************)
(* main, one action per step                                               *)
(***************************************************************************)

Init ==
    /\ pc = "start"
    /\ tz \in MainOffsets
    /\ file1 \in Files1
    /\ file2 \in Files2
    /\ fixture = Unread
    /\ data1 = EmptyDict
    /\ data2 = EmptyDict
    /\ unified1 = <<>>
    /\ unified2 = <<>>
    /\ raised = Returned(<<>>)
    /\ output = NotWritten
    /\ test_passed = FALSE
    /\ arg = NoCall
    /\ ret = Returned(<<>>)

\* Lines 197-198.
MainLoad ==
    /\ pc = "start"
    /\ data1' = load_json_file(file1)
    /\ data2' = load_json_file(file2)
    /\ pc' = "loaded"
    /\ UNCHANGED <<tz, arg, ret, file1, file2, fixture, unified1, unified2,
                   raised, output, test_passed>>

\* Lines 200-204: return, or go on.
MainCheck ==
    /\ pc = "loaded"
    /\ pc' = IF LoadFailed(data1, data2) THEN "aborted" ELSE "transform1"
    /\ UNCHANGED <<tz, arg, ret, file1, file2, fixture, data1, data2, unified1,
                   unified2, raised, output, test_passed>>

\* Line 208; an exception of the mapper leaves main.
MainTransform1 ==
    /\ pc = "transform1"
    /\ LET r == transform_format1_to_unified(data1, tz)
       IN  IF r.raised
           THEN raised' = r /\ pc' = "crashed" /\ UNCHANGED unified1
           ELSE unified1' = r.value /\ pc' = "transform2" /\ UNCHANGED raised
    /\ UNCHANGED <<tz, arg, ret, file1, file2, fixture, data1, data2, unified2,
                   output, test_passed>>

\* Line 209.
MainTransform2 ==
    /\ pc = "transform2"
    /\ LET r == transform_format2_to_unified(data2)
       IN  IF r.raised
           THEN raised' = r /\ pc' = "crashed" /\ UNCHANGED unified2
           ELSE unified2' = r.value /\ pc' = "save" /\ UNCHANGED raised
    /\ UNCHANGED <<tz, arg, ret, file1, file2, fixture, data1, data2, unified1,
                   output, test_passed>>

\* Lines 212-218.
MainSave ==
    /\ pc = "save"
    /\ output' = save_unified_data(Concatenate(unified1, unified2))
    /\ pc' = "tests"
    /\ UNCHANGED <<tz, arg, ret, file1, file2, fixture, data1, data2, unified1,
                   unified2, raised, test_passed>>

\* Lines 222-227: run_tests reads the fixture and both documents again.
MainRunTests ==
    /\ pc = "tests"
    /\ \E f \in FixtureFiles(unified1, unified2) :
          /\ fixture' = f
          /\ LET r == run_tests(f, file1, file2, tz)
             IN  IF r.raised
                 THEN raised' = r /\ pc' = "crashed" /\ UNCHANGED test_passed
                 ELSE test_passed' = r.value /\ pc' = "done" /\ UNCHANGED raised
    /\ UNCHANGED <<tz, arg, ret, file1, file2, data1, data2, unified1, unified2,
                   output>>

Next ==
    \/ MainLoad
    \/ MainCheck
    \/ MainTransform1
    \/ MainTransform2
    \/ MainSave
    \/ MainRunTests

Spec == Init /\ [][Next]_vars

(***************************************************************************)
(* Direct calls of iso_to_milliseconds and of the two mappers              *)
(***************************************************************************)

InitCalls ==
    /\ pc = "call"
    /\ tz \in LocalOffsets
    /\ \/ /\ arg \in {Call("iso_to_milliseconds", v, EmptyDict) : v \in IsoArgs}
                \cup {Call("transform_format1_to_unified", <<>>, v) : v \in Format1Args}
                \cup {Call("transform_format2_to_unified", <<>>, v) : v \in Format2Args}
          /\ file1 = Missing
          /\ file2 = Missing
          /\ fixture = Unread
       \/ /\ arg = Call("run_tests", <<>>, EmptyDict)
          /\ file1 \in TestFiles1
          /\ file2 \in TestFiles2
          /\ fixture \in TestFixtures(file1, file2, tz)
    /\ ret = Returned(<<>>)
    /\ data1 = EmptyDict
    /\ data2 = EmptyDict
    /\ unified1 = <<>>
    /\ unified2 = <<>>
    /\ raised = Returned(<<>>)
    /\ output = NotWritten
    /\ test_passed = FALSE

CallIso ==
    /\ pc = "call"
    /\ arg.fn = "iso_to_milliseconds"
    /\ ret' = Returned(iso_to_milliseconds(arg.iso_timestamp, tz))
    /\ pc' = "returned"
    /\ UNCHANGED <<tz, arg, file1, file2, fixture, data1, data2, unified1,
                   unified2, raised, output, test_passed>>

CallFormat1 ==
    /\ pc = "call"
    /\ arg.fn = "transform_format1_to_unified"
    /\ ret' = transform_format1_to_unified(arg.data, tz)
    /\ pc' = "returned"
    /\ UNCHANGED <<tz, arg, file1, file2, fixture, data1, data2, unified1,
                   unified2, raised, output, test_passed>>

CallFormat2 ==
    /\ pc = "call"
    /\ arg.fn = "transform_format2_to_unified"
    /\ ret' = transform_format2_to_unified(arg.data)
    /\ pc' = "returned"
    /\ UNCHANGED <<tz, arg, file1, file2, fixture, data1, data2, unified1,
                   unified2, raised, output, test_passed>>

CallRunTests ==
    /\ pc = "call"
    /\ arg.fn = "run_tests"
    /\ ret' = run_tests(fixture, file1, file2, tz)
    /\ pc' = "returned"
    /\ UNCHANGED <<tz, arg, file1, file2, fixture, data1, data2, unified1,
                   unified2, raised, output, test_passed>>

NextCalls ==
    \/ CallIso
    \/ CallFormat1
    \/ CallFormat2
    \/ CallRunTests

SpecCalls == InitCalls /\ [][NextCalls]_vars

(***************************************************************************)
(* Properties                                                              *)
(***************************************************************************)

Complete(entry, keys) == \A i \in 1..Len(keys) : keys[i] \in DOMAIN entry

AllComplete(entries, keys) == \A i \in 1..Len(entries) : Complete(entries[i], keys)

UnifiedKeys == {"device_id", "timestamp", "temperature", "humidity", "pressure"}

Returned1 == pc = "returned" /\ arg.fn = "transform_format1_to_unified"

Returned2 == pc = "returned" /\ arg.fn = "transform_format2_to_unified"

ReturnedIso == pc = "returned" /\ arg.fn = "iso_to_milliseconds"

ReturnedTests == pc = "returned" /\ arg.fn = "run_tests"

\* C1: on a document whose 'telemetry' list has N entries with all five
\* fields, transform_format1_to_unified returns N records, record i carrying
\* entry i's device_id, temperature, humidity and pressure and, as timestamp,
\* iso_to_milliseconds of entry i's timestamp: nothing is dropped, doubled or
\* moved, an entry whose timestamp does not parse included.
C1_Format1OneToOne ==
    (/\ Returned1
     /\ "telemetry" \in DOMAIN arg.data
     /\ AllComplete(arg.data.telemetry, Format1Keys))
    => LET in == arg.data.telemetry
       IN  /\ ~ret.raised
           /\ Len(ret.value) = Len(in)
           /\ \A i \in 1..Len(in) :
                 /\ ret.value[i].device_id = in[i].device_id
                 /\ ret.value[i].temperature = in[i].temperature
                 /\ ret.value[i].humidity = in[i].humidity
                 /\ ret.value[i].pressure = in[i].pressure
                 /\ ret.value[i].timestamp = iso_to_milliseconds(in[i].timestamp, tz)

\* Reached: two complete entries, the first with a timestamp that does not
\* parse, mapped to two records, the first with timestamp 0.
C1_Witness ==
    /\ Returned1
    /\ arg.data = [telemetry |-> <<Entry1(TsGarbage), Entry1(TsExample)>>]
    /\ Len(ret.value) = 2
    /\ ret.value[1].timestamp = PyZero
    /\ ret.value[2].timestamp # PyZero

\* C2: on a document whose 'sensors' list has N entries with id, ts, temp, hum
\* and press, transform_format2_to_unified returns N records, record i being
\* exactly the five unified fields with device_id = id, timestamp = ts as it
\* is, temperature = temp, humidity = hum, pressure = press of entry i.
C2_Format2OneToOne ==
    (/\ Returned2
     /\ "sensors" \in DOMAIN arg.data
     /\ AllComplete(arg.data.sensors, Format2Keys))
    => LET in == arg.data.sensors
       IN  /\ ~ret.raised
           /\ Len(ret.value) = Len(in)
           /\ \A i \in 1..Len(in) :
                 /\ DOMAIN ret.value[i] = UnifiedKeys
                 /\ ret.value[i].device_id = in[i].id
                 /\ ret.value[i].timestamp = in[i].ts
                 /\ ret.value[i].temperature = in[i].temp
                 /\ ret.value[i].humidity = in[i].hum
                 /\ ret.value[i].pressure = in[i].press

\* Reached: two complete entries of different ids mapped to two records.
C2_Witness ==
    /\ Returned2
    /\ arg.data = [sensors |-> <<Entry2("sensor_003"), Entry2("sensor_002")>>]
    /\ Len(ret.value) = 2
    /\ ret.value[1].device_id = "sensor_003"

InputList(data, key) == IF key \in DOMAIN data THEN data[key] ELSE <<>>

\* C3: when main has saved, with a Format-A list of M entries and a Format-B
\* list of N, the sequence under 'unified_telemetry' has M + N records, the
\* first M the Format-A mapper's output in input order, the last N the
\* Format-B mapper's in input order, duplicates kept.
C3_MergeOrder ==
    output.written
    => LET m   == Len(InputList(data1, "telemetry"))
           n   == Len(InputList(data2, "sensors"))
           out == output.unified_telemetry
       IN  /\ Len(out) = m + n
           /\ SubSeq(out, 1, m) = transform_format1_to_unified(data1, tz).value
           /\ SubSeq(out, m + 1, m + n) = transform_format2_to_unified(data2).value
           /\ \A i \in 1..m : out[i].device_id = data1.telemetry[i].device_id
           /\ \A i \in 1..n : out[m + i].device_id = data2.sensors[i].id

\* Reached: saved with M = 2 equal Format-A entries and N = 2 Format-B ones.
C3_Witness ==
    /\ output.written
    /\ data1 = [telemetry |-> <<Entry1(TsExample), Entry1(TsExample)>>]
    /\ data2 = [sensors |-> <<Entry2("sensor_003"), Entry2("sensor_002")>>]
    /\ Len(output.unified_telemetry) = 4

HasDefective(data, key, keys) ==
    key \in DOMAIN data /\ ~AllComplete(data[key], keys)

\* C4: if an entry of the list lacks one of its five fields, the mapper
\* raises the missing-field error to main instead of returning a list, and
\* the run ends without writing the output file.
C4_MissingFieldStops ==
    /\ HasDefective(data1, "telemetry", Format1Keys)
       => /\ pc \in {"loaded", "aborted", "transform1", "crashed"}
          /\ pc = "crashed" => (raised.raised /\ raised.key \in UnifiedKeys)
          /\ unified1 = <<>>
          /\ ~output.written
    /\ HasDefective(data2, "sensors", Format2Keys)
       => /\ pc \in {"loaded", "aborted", "transform1", "transform2", "crashed"}
          /\ (pc = "crashed" /\ ~HasDefective(data1, "telemetry", Format1Keys))
                => (raised.raised /\ raised.key \in {"id", "ts", "temp", "hum", "press"})
          /\ unified2 = <<>>
          /\ ~output.written

\* Reached: main left by the error of a Format-B list whose second entry lacks
\* 'press', after the Format-A list was mapped.
C4_Witness ==
    /\ pc = "crashed"
    /\ Len(unified1) = 2
    /\ data2 = [sensors |-> <<Entry2("sensor_003"),
                              Without(Entry2("sensor_002"), "press")>>]
    /\ raised = KeyError("press")
    /\ ~output.written

\* C5: on a document without the 'telemetry' key transform_format1_to_unified
\* returns the empty list without raising, and so does
\* transform_format2_to_unified on one without 'sensors'; {} is such a document.
C5_MissingKeyGivesEmptyList ==
    /\ (Returned1 /\ "telemetry" \notin DOMAIN arg.data) => ret = Returned(<<>>)
    /\ (Returned2 /\ "sensors" \notin DOMAIN arg.data) => ret = Returned(<<>>)

\* Reached: the Format-A mapper has returned on {}.
C5_Witness == Returned1 /\ arg.data = EmptyDict /\ ret = Returned(<<>>)

\* C6: on a timestamp string that is no date-time iso_to_milliseconds returns
\* 0 and raises nothing.
C6_MalformedGivesZero ==
    (ReturnedIso /\ arg.iso_timestamp \in MalformedStamps) => ret = Returned(PyZero)

\* Reached: iso_to_milliseconds has returned on a date that does not exist.
C6_Witness ==
    /\ ReturnedIso
    /\ arg.iso_timestamp \in Stamps(NoSuchDates, Clocks, {<<>>}, {<<"Z">>})
    /\ ret = Returned(PyZero)

\* The milliseconds from 1970-01-01T00:00:00Z to the instant a well-formed
\* timestamp with a zone names, truncated toward zero, in integers.
ExactMillis(iso_timestamp) ==
    LET dt == fromisoformat(ReplaceZ(iso_timestamp))
        s  == dt.seconds - dt.offset
    IN  IF s >= 0 THEN PyInt(FALSE, s, dt.us \div 1000)
        ELSE IF dt.us = 0 THEN PyInt(TRUE, -s, 0)
        ELSE PyInt(TRUE, -s - 1, (1000000 - dt.us) \div 1000)

\* The timestamp with its closing 'Z' written '+00:00'.
ZAsOffset(iso_timestamp) ==
    SubSeq(iso_timestamp, 1, Len(iso_timestamp) - 1) \o <<"+", "0", "0", ":", "0", "0">>

\* C7: on a well-formed extended ISO-8601 timestamp with a 'Z' or a numeric
\* offset iso_to_milliseconds returns the exact milliseconds since
\* 1970-01-01T00:00:00Z truncated toward zero, the same for 'Z' as for
\* '+00:00', and 1697372225123 for "2023-10-15T14:30:25.123Z".
C7_ExactMilliseconds ==
    (ReturnedIso /\ arg.iso_timestamp \in AwareStamps)
    => /\ ret = Returned(ExactMillis(arg.iso_timestamp))
       /\ arg.iso_timestamp[Len(arg.iso_timestamp)] = "Z"
             => ret.value = iso_to_milliseconds(ZAsOffset(arg.iso_timestamp), tz)
       /\ arg.iso_timestamp = TsExample => ret.value = PyInt(FALSE, 1697372225, 123)

\* C8: if loading either input document fails (no file, or not JSON), main
\* returns before a mapper is applied and before save_unified_data: no output
\* file, and run_tests is never run.
C8_LoadFailureAborts ==
    (file1.kind # "json" \/ file2.kind # "json")
    => /\ pc \in {"start", "loaded", "aborted"}
       /\ unified1 = <<>> /\ unified2 = <<>>
       /\ ~output.written
       /\ fixture = Unread

\* Reached: main has returned, data-2.json missing beside a good data-1.json.
C8_Witness ==
    /\ pc = "aborted"
    /\ file1 = JsonFile([telemetry |-> <<Entry1(TsExample)>>])
    /\ file2 = Missing

\* C9: run_tests returns True exactly when the fixture and both
\* documents load and the Format-A output followed by the Format-B output
\* equals the fixture's 'unified_telemetry' list, record for record; in every
\* other run that returns, False.
C9_TrueIffLoadedAndEqual ==
    (ReturnedTests /\ ~ret.raised)
    => (ret.value <=>
           /\ fixture.kind = "json" /\ file1.kind = "json" /\ file2.kind = "json"
           /\ "unified_telemetry" \in DOMAIN fixture.value
           /\ fixture.value.unified_telemetry =
                 transform_format1_to_unified(file1.value, tz).value
                 \o transform_format2_to_unified(file2.value).value)

NoDefective ==
    /\ ~HasDefective(file1.value, "telemetry", Format1Keys)
    /\ ~HasDefective(file2.value, "sensors", Format2Keys)

\* C10: when both input files hold JSON mappings and no entry lacks
\* a field, main reaches the save step and writes the merged output, also
\* when a document is {}, which then adds no record.
C10_ValidFilesAreSaved ==
    (file1.kind = "json" /\ file2.kind = "json" /\ NoDefective)
    => /\ pc \notin {"aborted", "crashed"}
       /\ pc \in {"tests", "done"} => output.written

====
